---- MODULE Spec2Model ----
(***************************************************************************)
(* Sakuku web app: the persistence service (services/storage.ts), the      *)
(* exchange-rate service (services/currency.ts), the display-amount        *)
(* derivation of App.tsx and the offline cache worker (public/sw.js).      *)
(***************************************************************************)
EXTENDS Integers, Sequences, FiniteSets, TLC

VARIABLES
    txStore,        \* localStorage[STORAGE_KEY], by what JSON.parse makes of it
    settingsStore,  \* localStorage[SETTINGS_KEY], likewise
    uuidCtr,        \* number of identifiers crypto.randomUUID() has handed out
    clock,          \* wall clock (Date.now()), in milliseconds
    last,           \* the last completed call of the persistence service
    sessionCache,   \* sessionStorage["exchange_rates_" + base], per base
    rcall,          \* the last completed getLatestRates call
    rprev,          \* the getLatestRates call completed before it
    settings,       \* App state: settings
    exchangeRates,  \* App state: the rate table held, by name
    isLoadingRates, \* App state
    inflight,       \* rate requests in flight, per base
    mounted,        \* the app has rendered once
    everReceived,   \* a rate table has been set since the start
    shown,          \* the amount a view displays
    swState,        \* life cycle of the offline worker
    caches,         \* CacheStorage of the origin, by cache name
    pendingPuts,    \* copies handed to a cache.put nobody awaits
    swLast,         \* the last fetch event the worker answered
    transactions,   \* App state: the list the views show
    confirmState,   \* App state: the pending confirmation
    submit,         \* the last submission of the transaction form
    tabs            \* the storage call each tab of the origin is in


(***************************************************************************)
(* Bounds of the model.                                                    *)
(***************************************************************************)
MaxRawLen == 2      \* longest list the storage holds at the start
MaxLen == 3         \* longest list a save may produce
MaxUuid == 2        \* identifiers crypto.randomUUID() may hand out
MaxTicks == 3       \* clock steps
TicksPerHour == 2   \* clock steps per hour
MaxInFlight == 2    \* rate requests in flight at a time

HourMs == 60 * 60 * 1000
TickMs == HourMs \div TicksPerHour

(***************************************************************************)
(* JSON values of a field: undefined (the key is missing), null, NaN, a    *)
(* number, a string. A string made by crypto.randomUUID() or by            *)
(* new Date().toISOString() carries the counter or the clock it came from. *)
(***************************************************************************)
JUndef == [k |-> "undef", n |-> 0, s |-> ""]
JNull == [k |-> "null", n |-> 0, s |-> ""]
JNaN == [k |-> "nan", n |-> 0, s |-> ""]
JNum(i) == [k |-> "num", n |-> i, s |-> ""]
JStr(x) == [k |-> "str", n |-> 0, s |-> x]
JUuid(i) == [k |-> "str", n |-> i, s |-> "uuid"]
JIso(t) == [k |-> "str", n |-> t, s |-> "iso"]

\* JavaScript truthiness, as `||` tests it.
Truthy(v) ==
    CASE v.k = "num" -> v.n # 0
      [] v.k = "str" -> v.s # ""
      [] OTHER -> FALSE

\* a || b
OrElse(a, b) == IF Truthy(a) THEN a ELSE b

\* Number(v)
ToNumber(v) ==
    CASE v.k = "num" -> v
      [] v.k = "null" -> JNum(0)
      [] v.k = "str" /\ v.s = "" -> JNum(0)
      [] v.k = "str" /\ v.s = "3" -> JNum(3)
      [] OTHER -> JNaN

\* What JSON.stringify followed by JSON.parse makes of a field value:
\* undefined drops the key, NaN is written as null.
JsonField(v) == IF v.k = "nan" THEN JNull ELSE v

FieldNames == {"id", "amount", "description", "category", "date", "type", "currency"}

Obj(id, amount, description, category, date, type, currency) ==
    [k |-> "obj", id |-> id, amount |-> amount, description |-> description,
     category |-> category, date |-> date, type |-> type, currency |-> currency]

\* A list entry that is null, and one that is a number or a string: reading a
\* property of the latter yields undefined.
NullEntry == [Obj(JUndef, JUndef, JUndef, JUndef, JUndef, JUndef, JUndef) EXCEPT !.k = "null"]
PrimEntry == [Obj(JUndef, JUndef, JUndef, JUndef, JUndef, JUndef, JUndef) EXCEPT !.k = "prim"]

JsonEntry(t) ==
    IF t.k # "obj" THEN t
    ELSE Obj(JsonField(t.id), JsonField(t.amount), JsonField(t.description),
             JsonField(t.category), JsonField(t.date), JsonField(t.type),
             JsonField(t.currency))

(***************************************************************************)
(* The text under a storage key, by what the code can tell of it.          *)
(***************************************************************************)
Absent == [kind |-> "absent", items |-> <<>>]        \* getItem returns null
EmptyText == [kind |-> "empty", items |-> <<>>]      \* the empty string
Garbage == [kind |-> "garbage", items |-> <<>>]      \* JSON.parse throws
NonList == [kind |-> "nonlist", items |-> <<>>]      \* parses, but to no array
ListText(items) == [kind |-> "list", items |-> items]

\* JSON.stringify(list), as the text it leaves under the key.
Stringify(list) == ListText([i \in 1..Len(list) |-> JsonEntry(list[i])])

TransactionType == [INCOME |-> JStr("income"), EXPENSE |-> JStr("expense")]

\* The entries before position i that get a fresh identifier.
NeedsId(items, i) == Cardinality({j \in 1..i : ~Truthy(items[j].id)})

\* The sanitizer writing the default currency over the one the entry has.
SanitizeAsIdr(t, uuid, now) ==
    Obj(OrElse(t.id, JUuid(uuid)),
        OrElse(ToNumber(t.amount), JNum(0)),
        OrElse(t.description, JStr("Tanpa Keterangan")),
        OrElse(t.category, JStr("Lainnya")),
        OrElse(t.date, JIso(now)),
        IF t.type = JStr("income") THEN TransactionType.INCOME ELSE TransactionType.EXPENSE,
        JStr("IDR"))

\* One entry of parsed.map(...), for an entry that is not null.
Sanitize(t, uuid, now) ==
    Obj(OrElse(t.id, JUuid(uuid)),
        OrElse(ToNumber(t.amount), JNum(0)),
        OrElse(t.description, JStr("Tanpa Keterangan")),
        OrElse(t.category, JStr("Lainnya")),
        OrElse(t.date, JIso(now)),
        IF t.type = JStr("income") THEN TransactionType.INCOME ELSE TransactionType.EXPENSE,
        OrElse(t.currency, JStr("IDR")))

\* getTransactions() without the storage read: the list it returns for the text `data`.
GetTransactions(data, ctr, now) ==
    IF data.kind \in {"absent", "empty"} THEN <<>>
    ELSE IF data.kind # "list" THEN <<>>
    ELSE IF \E i \in 1..Len(data.items) : data.items[i].k = "null" THEN <<>>
    ELSE [i \in 1..Len(data.items) |->
            Sanitize(data.items[i], ctr + NeedsId(data.items, i), now)]

\* The identifiers a getTransactions() call draws.
UuidsDrawn(data) ==
    IF data.kind # "list" THEN 0
    ELSE IF \E i \in 1..Len(data.items) : data.items[i].k = "null"
         THEN NeedsId(data.items,
                      (CHOOSE i \in 1..Len(data.items) : data.items[i].k = "null"
                          /\ \A j \in 1..(i - 1) : data.items[j].k # "null") - 1)
    ELSE NeedsId(data.items, Len(data.items))

(***************************************************************************)
(* Settings.                                                               *)
(***************************************************************************)
SettingsObj(currency, language, theme, username, avatar) ==
    [currency |-> currency, language |-> language, theme |-> theme,
     username |-> username, avatar |-> avatar]

DEFAULT_SETTINGS == SettingsObj(JStr("IDR"), JStr("id"), JStr("dark"), JStr("User"), JNull)

NoSettings == SettingsObj(JUndef, JUndef, JUndef, JUndef, JUndef)
SAbsent == [kind |-> "absent", obj |-> NoSettings]
SEmpty == [kind |-> "empty", obj |-> NoSettings]
SGarbage == [kind |-> "garbage", obj |-> NoSettings]
SNonObj == [kind |-> "nonobj", obj |-> NoSettings]   \* null, a number: the spread adds nothing
SObjText(o) == [kind |-> "obj", obj |-> o]

\* The spread with its two operands exchanged: { ...parsed, ...DEFAULT_SETTINGS }
MergeDefaultsLast(defaults, parsed) ==
    [f \in DOMAIN defaults |-> IF defaults[f].k # "undef" THEN defaults[f] ELSE parsed[f]]

\* { ...DEFAULT_SETTINGS, ...parsed }
Merge(defaults, parsed) ==
    [f \in DOMAIN defaults |-> IF parsed[f].k # "undef" THEN parsed[f] ELSE defaults[f]]

\* getSettings() without the storage read.
GetSettings(data) ==
    IF data.kind \in {"absent", "empty"} THEN DEFAULT_SETTINGS
    ELSE IF data.kind = "garbage" THEN DEFAULT_SETTINGS
    ELSE Merge(DEFAULT_SETTINGS, data.obj)

\* JSON.stringify(settings), as the text it leaves under the key.
StringifySettings(o) == SObjText([f \in DOMAIN o |-> JsonField(o[f])])

(***************************************************************************)
(* Inputs of the persistence service.                                      *)
(***************************************************************************)
\* localStorage.getItem / setItem either works or throws (storage disabled,
\* quota exceeded).
StorageOutcome == {"ok", "refuse"}

TxA == Obj(JStr("a"), JNum(5), JStr("lunch"), JStr("Food"), JStr("d1"), JStr("income"), JStr("USD"))
TxB == Obj(JStr("b"), JNum(7), JStr("rent"), JStr("Bills"), JStr("d2"), JStr("expense"), JStr("IDR"))
\* transactions as handleAddTransaction hands them over
TxInputs == {TxA, TxB}
\* lists handed to overrideTransactions
OverrideInputs == {<<>>, <<TxA>>, <<TxB, TxA>>}
\* ids handed to deleteTransaction: of stored entries, and one that a
\* getTransactions() call made up for an entry without an id
IdInputs == {JStr("a"), JStr("b"), JUuid(1)}

\* an entry of an older version: amount as text, no description, category or currency
RawLegacy == Obj(JStr("b"), JStr("3"), JUndef, JUndef, JStr("d0"), JStr("INCOME"), JUndef)
\* {}
RawBare == Obj(JUndef, JUndef, JUndef, JUndef, JUndef, JUndef, JUndef)
RawEntries == {TxA, RawLegacy, RawBare, NullEntry, PrimEntry}

RECURSIVE SeqsUpTo(_, _)
SeqsUpTo(S, n) ==
    IF n = 0 THEN {<<>>}
    ELSE LET shorter == SeqsUpTo(S, n - 1)
         IN shorter \cup {Append(q, e) : q \in {r \in shorter : Len(r) = n - 1}, e \in S}

RawStores == {Absent, EmptyText, Garbage, NonList} \cup {ListText(q) : q \in SeqsUpTo(RawEntries, MaxRawLen)}

RawSettings ==
    {SAbsent, SEmpty, SGarbage, SNonObj,
     SObjText(NoSettings),
     SObjText([NoSettings EXCEPT !.currency = JStr("USD")]),
     SObjText(SettingsObj(JStr("EUR"), JStr("en"), JStr("light"), JStr("Ann"), JStr("img")))}

\* Objects handed to saveSettings: complete ones, and every subset of the
\* fields of one of them.
SettingsInputs ==
    {SettingsObj(JStr("USD"), JStr("en"), JStr("light"), JStr("Ann"), JNull),
     SettingsObj(JStr("EUR"), JStr("id"), JStr("dark"), JStr("User"), JStr("img"))}
    \cup {[f \in DOMAIN NoSettings |->
             IF f \in present
             THEN SettingsObj(JStr("USD"), JStr("en"), JStr("light"), JStr("Ann"), JStr("img"))[f]
             ELSE JUndef] : present \in SUBSET DOMAIN NoSettings}

NoCall ==
    [op |-> "none", tx |-> NullEntry, id |-> JUndef, list |-> <<>>, settings |-> NoSettings,
     ret |-> <<>>, sret |-> NoSettings, threw |-> FALSE,
     pre |-> Absent, spre |-> SAbsent, preCtr |-> 0, preClock |-> 0]

\* The record of a call that starts in the current state.
Call(op) == [NoCall EXCEPT !.op = op, !.pre = txStore, !.spre = settingsStore,
                           !.preCtr = uuidCtr, !.preClock = clock]

(***************************************************************************)
(* The persistence service: one action per exported function. rd and wr    *)
(* are what localStorage does with the call's read and write.              *)
(***************************************************************************)
\* [transaction, ...current] with the arguments exchanged.
PrependSwapped(transaction, current) == current \o <<transaction>>

\* [transaction, ...current]
Prepend(transaction, current) == <<transaction>> \o current

\* A filter that drops the first match only.
RECURSIVE WithoutFirst(_, _)
WithoutFirst(current, id) ==
    IF current = <<>> THEN <<>>
    ELSE IF Head(current).id = id THEN Tail(current)
    ELSE <<Head(current)>> \o WithoutFirst(Tail(current), id)

\* current.filter(t => t.id !== id)
FilterOut(current, id) == SelectSeq(current, LAMBDA t : t.id # id)

DoGetTransactions(rd) ==
    /\ uuidCtr + UuidsDrawn(txStore) <= MaxUuid
    /\ IF rd = "refuse"
       THEN /\ last' = [Call("getTransactions") EXCEPT !.threw = TRUE]
            /\ UNCHANGED uuidCtr
       ELSE /\ last' = [Call("getTransactions") EXCEPT
                           !.ret = GetTransactions(txStore, uuidCtr, clock)]
            /\ uuidCtr' = uuidCtr + UuidsDrawn(txStore)
    /\ UNCHANGED <<txStore, settingsStore, clock>>

DoSaveTransaction(transaction, rd, wr) ==
    LET current == GetTransactions(txStore, uuidCtr, clock)
        updated == Prepend(transaction, current)
        call == [Call("saveTransaction") EXCEPT !.tx = transaction]
    IN /\ uuidCtr + UuidsDrawn(txStore) <= MaxUuid
       /\ Len(current) < MaxLen
       /\ IF rd = "refuse"
          THEN /\ last' = [call EXCEPT !.threw = TRUE]
               /\ UNCHANGED <<txStore, uuidCtr>>
          ELSE /\ uuidCtr' = uuidCtr + UuidsDrawn(txStore)
               /\ IF wr = "refuse"
                  THEN /\ last' = [call EXCEPT !.threw = TRUE]
                       /\ UNCHANGED txStore
                  ELSE /\ txStore' = Stringify(updated)
                       /\ last' = [call EXCEPT !.ret = updated]
       /\ UNCHANGED <<settingsStore, clock>>

DoOverrideTransactions(newTransactions, wr) ==
    LET call == [Call("overrideTransactions") EXCEPT !.list = newTransactions]
    IN /\ IF wr = "refuse"
          THEN /\ last' = [call EXCEPT !.threw = TRUE]
               /\ UNCHANGED txStore
          ELSE /\ txStore' = Stringify(newTransactions)
               /\ last' = call
       /\ UNCHANGED <<settingsStore, uuidCtr, clock>>

DoDeleteTransaction(id, rd, wr) ==
    LET current == GetTransactions(txStore, uuidCtr, clock)
        updated == FilterOut(current, id)
        call == [Call("deleteTransaction") EXCEPT !.id = id]
    IN /\ uuidCtr + UuidsDrawn(txStore) <= MaxUuid
       /\ IF rd = "refuse"
          THEN /\ last' = [call EXCEPT !.threw = TRUE]
               /\ UNCHANGED <<txStore, uuidCtr>>
          ELSE /\ uuidCtr' = uuidCtr + UuidsDrawn(txStore)
               /\ IF wr = "refuse"
                  THEN /\ last' = [call EXCEPT !.threw = TRUE]
                       /\ UNCHANGED txStore
                  ELSE /\ txStore' = Stringify(updated)
                       /\ last' = [call EXCEPT !.ret = updated]
       /\ UNCHANGED <<settingsStore, clock>>

\* Clearing by removing the key: localStorage.removeItem(STORAGE_KEY).
DoClearByRemovingKey(wr) ==
    /\ IF wr = "refuse"
       THEN /\ last' = [Call("clearAllTransactions") EXCEPT !.threw = TRUE]
            /\ UNCHANGED txStore
       ELSE /\ txStore' = Absent
            /\ last' = Call("clearAllTransactions")
    /\ UNCHANGED <<settingsStore, uuidCtr, clock>>

DoClearAllTransactions(wr) ==
    /\ IF wr = "refuse"
       THEN /\ last' = [Call("clearAllTransactions") EXCEPT !.threw = TRUE]
            /\ UNCHANGED txStore
       ELSE /\ txStore' = Stringify(<<>>)
            /\ last' = Call("clearAllTransactions")
    /\ UNCHANGED <<settingsStore, uuidCtr, clock>>

DoGetSettings(rd) ==
    /\ last' = IF rd = "refuse"
               THEN [Call("getSettings") EXCEPT !.threw = TRUE]
               ELSE [Call("getSettings") EXCEPT !.sret = GetSettings(settingsStore)]
    /\ UNCHANGED <<txStore, settingsStore, uuidCtr, clock>>

DoSaveSettings(newSettings, wr) ==
    LET call == [Call("saveSettings") EXCEPT !.settings = newSettings]
    IN /\ IF wr = "refuse"
          THEN /\ last' = [call EXCEPT !.threw = TRUE]
               /\ UNCHANGED settingsStore
          ELSE /\ settingsStore' = StringifySettings(newSettings)
               /\ last' = call
       /\ UNCHANGED <<txStore, uuidCtr, clock>>

(***************************************************************************)
(* Exchange rates. A rate is a fraction num/den in lowest terms; a missing *)
(* table entry (undefined) is NoRate.                                      *)
(***************************************************************************)
RECURSIVE Gcd(_, _)
Gcd(a, b) == IF b = 0 THEN a ELSE Gcd(b, a % b)

Rat(n, d) == LET g == Gcd(n, d) IN [num |-> n \div g, den |-> d \div g]
NoRate == [num |-> 0, den |-> 0]
One == Rat(1, 1)
Zero == Rat(0, 1)

\* a * b and a / b on numbers; a / b for b = 0 is not a number the tables hold.
RatMul(a, b) ==
    LET g == Gcd(a.num, b.den)
        h == Gcd(b.num, a.den)
    IN Rat((a.num \div g) * (b.num \div h), (a.den \div h) * (b.den \div g))
RatDiv(a, b) == RatMul(a, [num |-> b.den, den |-> b.num])

\* JavaScript truthiness of a table entry: undefined and 0 are falsy.
HasRate(r) == r # NoRate /\ r.num # 0

Currencies == {"USD", "EUR", "JPY", "GBP", "AUD", "CAD", "CHF", "CNY", "IDR"}
CurrencyCode == {"IDR", "USD", "EUR"}

FALLBACK_RATES ==
    [c \in Currencies |->
        CASE c = "USD" -> Rat(1, 1)
          [] c = "EUR" -> Rat(107, 100)
          [] c = "JPY" -> Rat(63, 10000)
          [] c = "GBP" -> Rat(127, 100)
          [] c = "AUD" -> Rat(66, 100)
          [] c = "CAD" -> Rat(73, 100)
          [] c = "CHF" -> Rat(111, 100)
          [] c = "CNY" -> Rat(14, 100)
          [] OTHER -> Rat(62, 1000000)]

NoTable == [c \in Currencies |-> NoRate]

\* The fallback table handed out as it is, without dividing by the base's rate.
RelativeFallbackUnscaled(base) ==
    [currency \in Currencies |-> FALLBACK_RATES[currency]]

\* The catch branch: the fallback table relative to the base.
RelativeFallbackRates(base) ==
    LET baseRate == IF HasRate(FALLBACK_RATES[base]) THEN FALLBACK_RATES[base] ELSE One
    IN [currency \in Currencies |-> RatDiv(FALLBACK_RATES[currency], baseRate)]

(***************************************************************************)
(* The remote rate API. It serves one of two rate sets (the rates move     *)
(* over time); the second set leaves out EUR. Rates are quoted as units of *)
(* the currency per unit of the base.                                      *)
(***************************************************************************)
RateVersions == {1, 2}

\* value of one unit of the currency, in USD
UsdValue(c, v) ==
    CASE c = "USD" -> Rat(1, 1)
      [] c = "EUR" -> IF v = 1 THEN Rat(5, 4) ELSE NoRate
      [] c = "IDR" -> IF v = 1 THEN Rat(1, 16000) ELSE Rat(1, 15000)
      [] OTHER -> NoRate

\* data.rates of GET /latest?from=base; the first rate set lists the base itself.
ApiRates(base, v) ==
    [c \in Currencies |->
        IF UsdValue(c, v) = NoRate \/ UsdValue(base, v) = NoRate THEN NoRate
        ELSE IF c = base /\ v = 2 THEN NoRate
        ELSE RatDiv(UsdValue(base, v), UsdValue(c, v))]

\* What the network does with the request: the connection fails, the status is
\* not OK, the body does not parse, or a rate set arrives.
NetFailures == {"fail", "nonok", "badbody"}
NetOutcomes == NetFailures \cup {"ok1", "ok2"}
VersionOf(net) == IF net = "ok1" THEN 1 ELSE 2

\* The tables the program holds, by name: the live table of a base and rate
\* set, the fallback table of a base, or none (null).
NoTableId == [src |-> "none", base |-> "none", v |-> 0]
LiveId(base, v) == [src |-> "live", base |-> base, v |-> v]
FallbackId(base) == [src |-> "fallback", base |-> base, v |-> 0]

\* { ...data.rates, [base]: 1 } after delete data.rates[base]
RatesWithBase(base, v) == [ApiRates(base, v) EXCEPT ![base] = One]

TableOf(id) ==
    CASE id.src = "live" -> RatesWithBase(id.base, id.v)
      [] id.src = "fallback" -> RelativeFallbackRates(id.base)
      [] OTHER -> NoTable

\* The session-storage entry of a base, by what the code can tell of it.
CacheAbsent == [kind |-> "absent", rates |-> NoTableId, timestamp |-> 0]
CacheGarbage == [kind |-> "garbage", rates |-> NoTableId, timestamp |-> 0]
CacheEntry(rates, timestamp) == [kind |-> "entry", rates |-> rates, timestamp |-> timestamp]

\* Date.now() - timestamp < 60 * 60 * 1000, with <= in place of <.
CacheValidInclusive(entry, now) == entry.kind = "entry" /\ now - entry.timestamp <= HourMs

\* Date.now() - timestamp < 60 * 60 * 1000
CacheValid(entry, now) == entry.kind = "entry" /\ now - entry.timestamp < HourMs

\* getLatestRates(base) up to its first await: "rejected" (JSON.parse throws
\* outside the try block), "cached" (the entry is returned) or "fetch".
CacheLookup(entry, now) ==
    IF entry.kind = "garbage" THEN "rejected"
    ELSE IF CacheValid(entry, now) THEN "cached"
    ELSE "fetch"

\* A catch branch that stores the fallback table under the cache key.
FetchResultStoringFallback(base, entry, net, wr, now) ==
    IF net \in NetFailures
    THEN [outcome |-> "fallback", rates |-> FallbackId(base),
          entry |-> CacheEntry(FallbackId(base), now)]
    ELSE IF wr = "refuse"
    THEN [outcome |-> "fallback", rates |-> FallbackId(base), entry |-> entry]
    ELSE [outcome |-> "live", rates |-> LiveId(base, VersionOf(net)),
          entry |-> CacheEntry(LiveId(base, VersionOf(net)), now)]

\* getLatestRates(base) from the fetch on: the table it resolves to and the
\* entry it leaves in the session cache. net is what the network did, wr what
\* sessionStorage.setItem did.
FetchResult(base, entry, net, wr, now) ==
    IF net \in NetFailures
    THEN [outcome |-> "fallback", rates |-> FallbackId(base), entry |-> entry]
    ELSE IF wr = "refuse"
    THEN [outcome |-> "fallback", rates |-> FallbackId(base), entry |-> entry]
    ELSE [outcome |-> "live", rates |-> LiveId(base, VersionOf(net)),
          entry |-> CacheEntry(LiveId(base, VersionOf(net)), now)]

NoRatesCall ==
    [base |-> "none", start |-> 0, requests |-> 0, outcome |-> "none", rates |-> NoTableId,
     found |-> CacheAbsent]

\* What the next call needs to know of the call before it.
NoPrevCall == [base |-> "none", start |-> 0, requests |-> 0, outcome |-> "none"]
Summary(call) ==
    [base |-> call.base, start |-> call.start, requests |-> call.requests,
     outcome |-> call.outcome]

\* One getLatestRates(base) call awaited to its end.
GetLatestRates(base, net, wr) ==
    LET entry == sessionCache[base]
        look == CacheLookup(entry, clock)
        call == [NoRatesCall EXCEPT !.base = base, !.start = clock, !.found = entry]
        res == FetchResult(base, entry, net, wr, clock)
    IN /\ rprev' = Summary(rcall)
       /\ CASE look = "rejected" ->
                 /\ rcall' = [call EXCEPT !.outcome = "rejected"]
                 /\ UNCHANGED sessionCache
            [] look = "cached" ->
                 /\ rcall' = [call EXCEPT !.outcome = "cached", !.rates = entry.rates]
                 /\ UNCHANGED sessionCache
            [] OTHER ->
                 /\ rcall' = [call EXCEPT !.requests = 1, !.outcome = res.outcome,
                                         !.rates = res.rates]
                 /\ sessionCache' = [sessionCache EXCEPT ![base] = res.entry]
       /\ UNCHANGED clock

(***************************************************************************)
(* The app (App.tsx): the settings, the rate table it holds, and the       *)
(* amounts it displays.                                                    *)
(***************************************************************************)
\* exchangeRates[c]: a currency the table does not list reads as undefined.
RateIn(rates, c) == IF c \in Currencies THEN TableOf(rates)[c] ELSE NoRate

\* convertAmount without the test of isLoadingRates.
ConvertAmountWhileLoading(amount, from, to, rates, loading) ==
    IF from = to \/ rates = NoTableId
    THEN (IF from = to THEN amount ELSE Zero)
    ELSE LET fromRate == RateIn(rates, from)
             toRate == RateIn(rates, to)
         IN IF HasRate(fromRate) /\ HasRate(toRate)
            THEN RatMul(RatDiv(amount, fromRate), toRate)
            ELSE amount

\* convertAmount(amount, from, to), reading exchangeRates and isLoadingRates.
ConvertAmount(amount, from, to, rates, loading) ==
    IF from = to \/ rates = NoTableId \/ loading
    THEN (IF from = to THEN amount ELSE Zero)
    ELSE LET fromRate == RateIn(rates, from)
             toRate == RateIn(rates, to)
         IN IF HasRate(fromRate) /\ HasRate(toRate)
            THEN RatMul(RatDiv(amount, fromRate), toRate)
            ELSE amount

\* getDisplayAmount(transaction) in the current state of the app.
GetDisplayAmount(amount, currency) ==
    ConvertAmount(amount, currency, settings.currency.s, exchangeRates, isLoadingRates)

InFlightTotal == inflight["IDR"] + inflight["USD"] + inflight["EUR"]

NoShown == [amount |-> Zero, from |-> "none", result |-> Zero]

\* The fetchRates effect up to its first suspension, for settings.currency = cur.
\* A cached table is set in the same turn; a rejected getLatestRates leaves
\* isLoadingRates set.
FetchRatesEffect(cur) ==
    LET entry == sessionCache[cur]
        look == CacheLookup(entry, clock)
    IN CASE look = "rejected" ->
              /\ isLoadingRates' = TRUE
              /\ UNCHANGED <<exchangeRates, inflight, everReceived>>
         [] look = "cached" ->
              /\ exchangeRates' = entry.rates
              /\ isLoadingRates' = FALSE
              /\ everReceived' = TRUE
              /\ UNCHANGED inflight
         [] OTHER ->
              /\ InFlightTotal < MaxInFlight
              /\ isLoadingRates' = TRUE
              /\ inflight' = [inflight EXCEPT ![cur] = @ + 1]
              /\ UNCHANGED <<exchangeRates, everReceived>>

\* The first render and its effects.
Mount ==
    /\ ~mounted
    /\ mounted' = TRUE
    /\ FetchRatesEffect(settings.currency.s)
    /\ uuidCtr + UuidsDrawn(txStore) <= MaxUuid
    /\ transactions' = GetTransactions(txStore, uuidCtr, clock)
    /\ uuidCtr' = uuidCtr + UuidsDrawn(txStore)
    /\ shown' = NoShown
    /\ UNCHANGED <<settings, settingsStore, sessionCache, clock>>

\* handleCurrencyChange(curr): updateSettingsLogic, then the fetchRates effect
\* of the render that follows.
ChangeCurrency(curr) ==
    /\ mounted
    /\ curr # settings.currency.s
    /\ settings' = [settings EXCEPT !.currency = JStr(curr)]
    /\ settingsStore' = StringifySettings(settings')
    /\ FetchRatesEffect(curr)
    /\ shown' = NoShown
    /\ UNCHANGED <<mounted, sessionCache, clock>>

\* A request of an earlier fetchRates run completes: getLatestRates resolves,
\* then setExchangeRates(rates) and setIsLoadingRates(false).
CompleteFetch(base, net, wr) ==
    LET res == FetchResult(base, sessionCache[base], net, wr, clock)
    IN /\ inflight[base] > 0
       /\ inflight' = [inflight EXCEPT ![base] = @ - 1]
       /\ sessionCache' = [sessionCache EXCEPT ![base] = res.entry]
       /\ exchangeRates' = res.rates
       /\ isLoadingRates' = FALSE
       /\ everReceived' = TRUE
       /\ shown' = NoShown
       /\ UNCHANGED <<settings, settingsStore, mounted, clock>>

\* A view renders the amount of a transaction.
Display(amount, currency) ==
    /\ mounted
    /\ shown' = [amount |-> amount, from |-> currency,
                 result |-> GetDisplayAmount(amount, currency)]
    /\ UNCHANGED <<settings, settingsStore, mounted, sessionCache, clock,
                   exchangeRates, isLoadingRates, inflight, everReceived>>

AmountInputs == {Rat(100, 1)}
\* GBP is in the fallback table only.
TxCurrencies == CurrencyCode \cup {"GBP"}

(***************************************************************************)
(* The transaction form (TransactionFormModal.tsx) and the handlers of the *)
(* app that add and delete transactions.                                   *)
(***************************************************************************)
INCOME_CATEGORIES == {"Gaji", "Investasi", "Hadiah", "Pengembalian Dana", "Lainnya"}
EXPENSE_CATEGORIES ==
    {"Makanan", "Transportasi", "Tagihan", "Hiburan", "Kesehatan", "Belanja",
     "Pendidikan", "Donasi", "Lainnya"}

\* currentCategories of the form
CurrentCategories(type) ==
    IF type = TransactionType.INCOME.s THEN INCOME_CATEGORIES ELSE EXPENSE_CATEGORIES

\* The text of the amount field, as a sequence of pieces: groups of digits,
\* ".", ",", "-", " " and "x" (any other character).
DigitGroups == {"0", "1", "5", "000", "999"}
GroupValue(g) ==
    CASE g = "0" -> 0 [] g = "1" -> 1 [] g = "5" -> 5 [] g = "000" -> 0 [] OTHER -> 999
GroupScale(g) == IF g \in {"000", "999"} THEN 1000 ELSE 10

AmountLimit == 999999999

\* amount.replace(/\./g, '')
CleanAmount(text) == SelectSeq(text, LAMBDA c : c # ".")

\* amount.trim() === ''
IsBlank(text) == \A i \in 1..Len(text) : text[i] = " "

\* The digits parseFloat reads from position i on; it stops at the first
\* piece that is not a digit. The value stays below 2^31 for the texts used.
RECURSIVE ReadDigits(_, _, _)
ReadDigits(text, i, acc) ==
    IF i > Len(text) \/ text[i] \notin DigitGroups THEN acc
    ELSE ReadDigits(text, i + 1, acc * GroupScale(text[i]) + GroupValue(text[i]))

RECURSIVE SkipBlanks(_, _)
SkipBlanks(text, i) ==
    IF i <= Len(text) /\ text[i] = " " THEN SkipBlanks(text, i + 1) ELSE i

\* parseFloat(text): leading blanks, a sign, digits; NaN without a digit.
ParseFloat(text) ==
    LET i == SkipBlanks(text, 1)
        negative == i <= Len(text) /\ text[i] = "-"
        j == IF negative THEN i + 1 ELSE i
    IN IF j > Len(text) \/ text[j] \notin DigitGroups THEN JNaN
       ELSE JNum((IF negative THEN -1 ELSE 1) * ReadDigits(text, j, 0))

\* The validation of handleSubmit without the upper limit.
AmountErrorWithoutLimit(text) ==
    IF text = <<>> \/ IsBlank(text) THEN "required"
    ELSE LET numericAmount == ParseFloat(CleanAmount(text))
         IN IF numericAmount = JNaN \/ numericAmount.n <= 0 THEN "invalid"
            ELSE "none"

\* The validation of the amount in handleSubmit: the error it raises.
AmountError(text) ==
    IF text = <<>> \/ IsBlank(text) THEN "required"
    ELSE LET numericAmount == ParseFloat(CleanAmount(text))
         IN IF numericAmount = JNaN \/ numericAmount.n <= 0 THEN "invalid"
            ELSE IF numericAmount.n > AmountLimit THEN "large"
            ELSE "none"

\* description.trim() ? description.trim() : category
FinalDescription(description, category) ==
    IF description = "" THEN category ELSE description

\* The object handleSubmit hands to onSubmit.
NewTx(text, description, category, type, currency, now) ==
    Obj(JUndef, ParseFloat(CleanAmount(text)), JStr(FinalDescription(description, category)),
        JStr(category), JIso(now), JStr(type), JStr(currency))

\* { isOpen: false, type: null, id: null }
NoConfirm == [isOpen |-> FALSE, type |-> "none", id |-> JNull, ids |-> {}]
NoSubmit == [op |-> "none", amount |-> <<>>, category |-> "", type |-> "",
             currency |-> "", handed |-> FALSE, tx |-> NullEntry,
             pre |-> Absent, preList |-> <<>>]

\* Texts of the amount field: what handleAmountChange leaves there, and what
\* the saved form data can bring in.
AmountTexts ==
    {<<>>, <<" ">>, <<"0">>, <<"-", "5">>, <<"x">>,
     <<"1", ".", "000">>, <<"999", ".", "999", ".", "999">>,
     <<"1", ".", "000", ".", "000", ".", "000">>,
     <<"1", ",", "5">>, <<"5", "x">>}
CategoryInputs == {"Gaji", "Makanan", "Bonus"}

\* Field values of the form at a submission: every amount text with one
\* choice of the other fields, and every category with either type.
FormFields(text, description, category, type, currency) ==
    [text |-> text, description |-> description, category |-> category,
     type |-> type, currency |-> currency]
FormInputs ==
    {FormFields(text, "kopi", "Makanan", "expense", "IDR") : text \in AmountTexts}
    \cup {FormFields(<<"1", ".", "000">>, "", category, type, "USD") :
             category \in CategoryInputs, type \in {"income", "expense"}}

\* Submissions the form accepts.
LedgerInputs ==
    {FormFields(<<"1", ".", "000">>, "kopi", "Makanan", "expense", "IDR"),
     FormFields(<<"1", ".", "000">>, "", "Gaji", "income", "USD")}

IdsOf(list) == {list[i].id : i \in 1..Len(list)}

\* handleAddTransaction(newTx): a fresh id, saveTransaction, setTransactions.
\* A storage call that throws rejects the promise the form awaits; the list
\* shown is then left as it was.
HandleAddTransaction(newTx, rd, wr) ==
    LET transaction == [newTx EXCEPT !.id = JUuid(uuidCtr + 1)]
        current == GetTransactions(txStore, uuidCtr + 1, clock)
        updated == Prepend(transaction, current)
    IN /\ uuidCtr + 1 + UuidsDrawn(txStore) <= MaxUuid
       /\ Len(current) < MaxLen
       /\ IF rd = "refuse"
          THEN /\ uuidCtr' = uuidCtr + 1
               /\ UNCHANGED <<txStore, transactions>>
          ELSE /\ uuidCtr' = uuidCtr + 1 + UuidsDrawn(txStore)
               /\ IF wr = "refuse"
                  THEN UNCHANGED <<txStore, transactions>>
                  ELSE /\ txStore' = Stringify(updated)
                       /\ transactions' = updated

\* handleSubmit of the form, for the field values given.
HandleSubmit(text, description, category, type, currency, rd, wr) ==
    LET record == [op |-> "submit", amount |-> text, category |-> category, type |-> type,
                   currency |-> currency, handed |-> FALSE, tx |-> NullEntry,
                   pre |-> txStore, preList |-> transactions]
        newTx == NewTx(text, description, category, type, currency, clock)
    IN /\ mounted
       /\ IF AmountError(text) # "none" \/ category \notin CurrentCategories(type)
          THEN /\ submit' = record
               /\ UNCHANGED <<txStore, transactions, uuidCtr>>
          ELSE /\ HandleAddTransaction(newTx, rd, wr)
               /\ submit' = [record EXCEPT !.handed = TRUE,
                                           !.tx = [newTx EXCEPT !.id = JUuid(uuidCtr + 1)]]
       /\ UNCHANGED confirmState

\* A delete button that deletes without asking.
DeleteAtOnce(id) ==
    /\ mounted
    /\ txStore' = Stringify(FilterOut(GetTransactions(txStore, uuidCtr, clock), id))
    /\ transactions' = FilterOut(GetTransactions(txStore, uuidCtr, clock), id)
    /\ submit' = NoSubmit
    /\ UNCHANGED <<confirmState, uuidCtr>>

InitiateDeleteTransaction(id) ==
    /\ mounted
    /\ confirmState' = [isOpen |-> TRUE, type |-> "single", id |-> id, ids |-> {}]
    /\ submit' = NoSubmit
    /\ UNCHANGED <<txStore, transactions, uuidCtr>>

InitiateDeleteMultiple(ids) ==
    /\ mounted
    /\ confirmState' = [isOpen |-> TRUE, type |-> "bulk", id |-> JNull, ids |-> ids]
    /\ submit' = NoSubmit
    /\ UNCHANGED <<txStore, transactions, uuidCtr>>

InitiateClearAllData ==
    /\ mounted
    /\ confirmState' = [isOpen |-> TRUE, type |-> "all", id |-> JNull, ids |-> {}]
    /\ submit' = NoSubmit
    /\ UNCHANGED <<txStore, transactions, uuidCtr>>

\* handleConfirmAction. st is what localStorage does with the first storage
\* call of the handler: an exception leaves the handler before any change.
\* In the bulk branch the list each deleteTransaction(id) writes is replaced
\* by the overrideTransactions(remaining) that ends the branch.
HandleConfirmAction(st) ==
    LET current == GetTransactions(txStore, uuidCtr, clock)
        remaining == SelectSeq(transactions, LAMBDA t : t.id \notin confirmState.ids)
        reads == \/ confirmState.type = "single" /\ Truthy(confirmState.id)
                 \/ confirmState.type = "bulk" /\ confirmState.ids # {}
        drawn == IF reads /\ st = "ok" THEN UuidsDrawn(txStore) ELSE 0
    IN /\ mounted
       /\ confirmState.isOpen
       /\ uuidCtr + drawn <= MaxUuid
       /\ submit' = [NoSubmit EXCEPT !.op = "confirm"]
       /\ uuidCtr' = uuidCtr + drawn
       /\ IF st = "refuse"
          THEN UNCHANGED <<txStore, transactions, confirmState>>
          ELSE /\ confirmState' = NoConfirm
               /\ CASE confirmState.type = "single" /\ Truthy(confirmState.id) ->
                         /\ txStore' = Stringify(FilterOut(current, confirmState.id))
                         /\ transactions' = FilterOut(current, confirmState.id)
                    [] confirmState.type = "bulk" ->
                         /\ txStore' = Stringify(remaining)
                         /\ transactions' = remaining
                    [] confirmState.type = "all" ->
                         /\ txStore' = Stringify(<<>>)
                         /\ transactions' = <<>>
                    [] OTHER -> UNCHANGED <<txStore, transactions>>

HandleCancelAction ==
    /\ mounted
    /\ confirmState.isOpen
    /\ confirmState' = NoConfirm
    /\ submit' = [NoSubmit EXCEPT !.op = "cancel"]
    /\ UNCHANGED <<txStore, transactions, uuidCtr>>

(***************************************************************************)
(* Two tabs of the origin share localStorage. A saveTransaction or         *)
(* deleteTransaction call is two steps: the getItem of getTransactions()   *)
(* and, later, the setItem; the other tab may run in between.              *)
(***************************************************************************)
Tabs == {1, 2}

IdleTab ==
    [pc |-> "idle", op |-> "none", tx |-> NullEntry, id |-> JUndef,
     current |-> <<>>, seen |-> Absent, wrote |-> <<>>, threw |-> FALSE]

\* const current = getTransactions()
TabRead(t, op, transaction, id, rd) ==
    /\ tabs[t].pc = "idle"
    /\ uuidCtr + UuidsDrawn(txStore) <= MaxUuid
    /\ op = "saveTransaction" => Len(GetTransactions(txStore, uuidCtr, clock)) < MaxRawLen
    /\ IF rd = "refuse"
       THEN /\ tabs' = [tabs EXCEPT ![t] = [IdleTab EXCEPT !.op = op, !.threw = TRUE]]
            /\ UNCHANGED uuidCtr
       ELSE /\ tabs' = [tabs EXCEPT ![t] =
                           [IdleTab EXCEPT !.pc = "read", !.op = op,
                                           !.tx = IF op = "saveTransaction" THEN transaction
                                                  ELSE NullEntry,
                                           !.id = IF op = "deleteTransaction" THEN id ELSE JUndef,
                                           !.current = GetTransactions(txStore, uuidCtr, clock),
                                           !.seen = txStore]]
            /\ uuidCtr' = uuidCtr + UuidsDrawn(txStore)
    /\ UNCHANGED <<txStore, settingsStore, clock, last>>

\* A write that reads the list again: the call as one step.
TabWriteAtomic(t, wr) ==
    LET current == GetTransactions(txStore, uuidCtr, clock)
        updated == IF tabs[t].op = "saveTransaction" THEN Prepend(tabs[t].tx, current)
                   ELSE FilterOut(current, tabs[t].id)
    IN /\ tabs[t].pc = "read"
       /\ Len(updated) <= MaxRawLen
       /\ IF wr = "refuse"
          THEN /\ tabs' = [tabs EXCEPT ![t].pc = "idle", ![t].threw = TRUE]
               /\ UNCHANGED txStore
          ELSE /\ txStore' = Stringify(updated)
               /\ tabs' = [tabs EXCEPT ![t].pc = "idle", ![t].wrote = updated]
       /\ UNCHANGED <<settingsStore, uuidCtr, clock, last>>

\* const updated = ...; localStorage.setItem(STORAGE_KEY, JSON.stringify(updated))
TabWrite(t, wr) ==
    LET current == tabs[t].current
        updated == IF tabs[t].op = "saveTransaction" THEN Prepend(tabs[t].tx, current)
                   ELSE FilterOut(current, tabs[t].id)
    IN /\ tabs[t].pc = "read"
       /\ IF wr = "refuse"
          THEN /\ tabs' = [tabs EXCEPT ![t].pc = "idle", ![t].threw = TRUE]
               /\ UNCHANGED txStore
          ELSE /\ txStore' = Stringify(updated)
               /\ tabs' = [tabs EXCEPT ![t].pc = "idle", ![t].wrote = updated]
       /\ UNCHANGED <<settingsStore, uuidCtr, clock, last>>

(***************************************************************************)
(* The offline cache worker (public/sw.js).                                *)
(***************************************************************************)
MaxPending == 1

CACHE_NAME == "sakuku-v1.2.0"
STATIC_CACHE == "sakuku-static-v1.2.0"
DYNAMIC_CACHE == "sakuku-dynamic-v1.2.0"
OLD_CACHE == "sakuku-static-v1.1.0"

STATIC_ASSETS == {"/", "/index.html", "/manifest.json", "/icon-192.png", "/icon-512.png"}

ApiUrl == "https://generativelanguage.googleapis.com/v1/models"
AssetUrl == "/assets/index.js"
\* `${FRANKFURTER_API_URL}/latest?from=${base}`
RatesUrl(base) ==
    CASE base = "IDR" -> "https://api.frankfurter.app/latest?from=IDR"
      [] base = "USD" -> "https://api.frankfurter.app/latest?from=USD"
      [] OTHER -> "https://api.frankfurter.app/latest?from=EUR"
Urls == STATIC_ASSETS \cup {AssetUrl, ApiUrl, RatesUrl(DEFAULT_SETTINGS.currency.s)}

\* caches.keys() and caches.match() go through the caches in creation order:
\* the caches earlier versions left, the shell cache, the dynamic cache.
CacheOrder == <<CACHE_NAME, OLD_CACHE, STATIC_CACHE, DYNAMIC_CACHE>>
CacheNames == {CacheOrder[i] : i \in 1..Len(CacheOrder)}

\* A response: its ok flag and the version of the payload it carries.
PayloadVersions == {1, 2}
NoResponse == [ok |-> FALSE, v |-> 0]
OkResponse(v) == [ok |-> TRUE, v |-> v]
ErrorResponse == [ok |-> FALSE, v |-> 1]
NetworkUnreachable == [ok |-> FALSE, v |-> -1]
NetworkResults == {OkResponse(v) : v \in PayloadVersions} \cup {ErrorResponse, NetworkUnreachable}

EmptyCache == [exists |-> TRUE, entries |-> [u \in Urls |-> NoResponse]]
NoCache == [exists |-> FALSE, entries |-> [u \in Urls |-> NoResponse]]

Request(url, mode, method) == [url |-> url, mode |-> mode, method |-> method]
Requests ==
    {Request("/", "navigate", "GET"), Request("/index.html", "navigate", "GET"),
     Request(AssetUrl, "no-cors", "GET"), Request("/icon-192.png", "no-cors", "GET"),
     Request(ApiUrl, "cors", "GET"), Request(ApiUrl, "cors", "POST")}

IsApiHost(url) == url = ApiUrl

\* caches.open(name): the cache, created when it does not exist.
Open(cs, name) == IF cs[name].exists THEN cs ELSE [cs EXCEPT ![name] = EmptyCache]

\* cache.put(request, response)
Put(cs, name, url, resp) == [Open(cs, name) EXCEPT ![name].entries[url] = resp]

\* cache.match(request), within one cache
CacheMatch(cs, name, url) == IF cs[name].exists THEN cs[name].entries[url] ELSE NoResponse

RECURSIVE MatchFrom(_, _, _)
MatchFrom(cs, url, i) ==
    IF i > Len(CacheOrder) THEN NoResponse
    ELSE IF CacheMatch(cs, CacheOrder[i], url) # NoResponse THEN CacheMatch(cs, CacheOrder[i], url)
    ELSE MatchFrom(cs, url, i + 1)

\* A lookup that goes through the dynamic cache only.
CachesMatchDynamicOnly(cs, url) == CacheMatch(cs, DYNAMIC_CACHE, url)

\* caches.match(request), over every cache
CachesMatch(cs, url) == MatchFrom(cs, url, 1)

\* a || b on responses, undefined being NoResponse
OrResponse(a, b) == IF a # NoResponse THEN a ELSE b

NoFetch == [url |-> "none", mode |-> "none", branch |-> "none", requests |-> 0,
            net |-> NoResponse, resp |-> NoResponse]

\* What the page gets: the response, or a network error when the promise
\* handed to respondWith resolves to undefined.
Respond(req, branch, requests, net, resp) ==
    [url |-> req.url, mode |-> req.mode, branch |-> branch, requests |-> requests,
     net |-> net, resp |-> resp]

\* install: cache.addAll(STATIC_ASSETS) fetches every asset and rejects when one
\* fetch fails or is not ok; the worker is then discarded.
Install(net) ==
    /\ swState = "parsed"
    /\ IF net.ok
       THEN /\ caches' = [caches EXCEPT ![STATIC_CACHE] =
                            [exists |-> TRUE,
                             entries |-> [u \in Urls |-> IF u \in STATIC_ASSETS THEN net
                                                         ELSE Open(caches, STATIC_CACHE)[STATIC_CACHE].entries[u]]]]
            /\ swState' = "installed"
       ELSE /\ caches' = Open(caches, STATIC_CACHE)
            /\ swState' = "parsed"
    /\ UNCHANGED <<pendingPuts, swLast>>

\* A test that keeps every cache.
KeepsEveryCache(cacheName) == TRUE

\* A test that keeps the shell cache only.
IsCurrentShellOnly(cacheName) == cacheName = STATIC_CACHE

\* The test of the activate listener: a cache of the current version is kept.
IsCurrent(cacheName) == ~(cacheName # STATIC_CACHE /\ cacheName # DYNAMIC_CACHE)

\* activate: caches.keys() is read and a delete is started for every cache
\* that is not one of the two current ones.
Activate ==
    /\ swState = "installed"
    /\ swState' = "activating"
    /\ UNCHANGED <<caches, pendingPuts, swLast>>

\* One caches.delete(cacheName) of the Promise.all finishes.
DeleteOldCache(cacheName) ==
    /\ swState = "activating"
    /\ ~IsCurrent(cacheName)
    /\ caches[cacheName].exists
    /\ caches' = [caches EXCEPT ![cacheName] = NoCache]
    /\ UNCHANGED <<swState, pendingPuts, swLast>>

\* Promise.all(...).then(() => self.clients.claim())
ClaimClients ==
    /\ swState = "activating"
    /\ \A cacheName \in CacheNames : ~IsCurrent(cacheName) => ~caches[cacheName].exists
    /\ swState' = "active"
    /\ UNCHANGED <<caches, pendingPuts, swLast>>

\* Requests the handler leaves to the browser.
FetchPassThrough(req, net) ==
    /\ swState = "active"
    /\ req.method # "GET"
    /\ swLast' = Respond(req, "browser", 1, net, IF net = NetworkUnreachable THEN NoResponse ELSE net)
    /\ UNCHANGED <<swState, caches, pendingPuts>>

\* The API branch answering from the caches when they hold the request.
FetchApiCacheFirst(req, net) ==
    /\ swState = "active"
    /\ req.method = "GET"
    /\ IsApiHost(req.url)
    /\ IF CachesMatch(caches, req.url) # NoResponse
       THEN swLast' = Respond(req, "api", 0, NoResponse, CachesMatch(caches, req.url))
       ELSE swLast' = Respond(req, "api", 1, net, IF net = NetworkUnreachable THEN NoResponse ELSE net)
    /\ UNCHANGED <<swState, caches, pendingPuts>>

\* Network first for the API host; the copy is stored without being awaited.
FetchApi(req, net) ==
    /\ swState = "active"
    /\ req.method = "GET"
    /\ IsApiHost(req.url)
    /\ IF net # NetworkUnreachable
       THEN /\ swLast' = Respond(req, "api", 1, net, net)
            /\ IF net.ok
               THEN /\ Cardinality(pendingPuts \cup {[url |-> req.url, resp |-> net]}) <= MaxPending
                    /\ pendingPuts' = pendingPuts \cup {[url |-> req.url, resp |-> net]}
               ELSE UNCHANGED pendingPuts
       ELSE /\ swLast' = Respond(req, "api", 1, net, CachesMatch(caches, req.url))
            /\ UNCHANGED pendingPuts
    /\ UNCHANGED <<swState, caches>>

\* The navigate branch returning the network response without storing it.
FetchNavigateUnstored(req, net) ==
    /\ swState = "active"
    /\ req.method = "GET"
    /\ ~IsApiHost(req.url)
    /\ req.mode = "navigate"
    /\ caches' = Open(caches, DYNAMIC_CACHE)
    /\ swLast' = Respond(req, "navigate", 1, net,
                         IF net # NetworkUnreachable THEN net
                         ELSE CacheMatch(caches, DYNAMIC_CACHE, req.url))
    /\ UNCHANGED <<swState, pendingPuts>>

\* Network first for navigations; the copy is stored before the response is returned.
FetchNavigate(req, net) ==
    /\ swState = "active"
    /\ req.method = "GET"
    /\ ~IsApiHost(req.url)
    /\ req.mode = "navigate"
    /\ IF net # NetworkUnreachable
       THEN /\ caches' = Put(caches, DYNAMIC_CACHE, req.url, net)
            /\ swLast' = Respond(req, "navigate", 1, net, net)
       ELSE /\ caches' = Open(caches, DYNAMIC_CACHE)
            /\ swLast' = Respond(req, "navigate", 1, net,
                                 OrResponse(CacheMatch(Open(caches, DYNAMIC_CACHE), DYNAMIC_CACHE, req.url),
                                            CacheMatch(Open(caches, DYNAMIC_CACHE), DYNAMIC_CACHE, "/index.html")))
    /\ UNCHANGED <<swState, pendingPuts>>

\* Cache first for everything else; the copy is stored without being awaited.
FetchCacheFirst(req, net) ==
    /\ swState = "active"
    /\ req.method = "GET"
    /\ ~IsApiHost(req.url)
    /\ req.mode # "navigate"
    /\ IF CachesMatch(caches, req.url) # NoResponse
       THEN /\ swLast' = Respond(req, "cache-first", 0, NoResponse, CachesMatch(caches, req.url))
            /\ UNCHANGED pendingPuts
       ELSE IF net = NetworkUnreachable
       THEN /\ swLast' = Respond(req, "cache-first", 1, net, CachesMatch(caches, req.url))
            /\ UNCHANGED pendingPuts
       ELSE /\ swLast' = Respond(req, "cache-first", 1, net, net)
            /\ IF net.ok
               THEN /\ Cardinality(pendingPuts \cup {[url |-> req.url, resp |-> net]}) <= MaxPending
                    /\ pendingPuts' = pendingPuts \cup {[url |-> req.url, resp |-> net]}
               ELSE UNCHANGED pendingPuts
    /\ UNCHANGED <<swState, caches>>

\* A copy handed to caches.open(DYNAMIC_CACHE).then(cache.put) reaches the cache.
PutCompletes(p) ==
    /\ p \in pendingPuts
    /\ caches' = Put(caches, DYNAMIC_CACHE, p.url, p.resp)
    /\ pendingPuts' = pendingPuts \ {p}
    /\ swLast' = NoFetch
    /\ UNCHANGED swState

(***************************************************************************)
(* The rate service of a page the worker controls: the fetch of            *)
(* getLatestRates is a fetch event of the worker.                          *)
(***************************************************************************)
\* What fetch() and response.json() of getLatestRates make of the response the
\* worker hands back: no response is a network error; the payload is the rate
\* set the API served when the response was made.
NetOfResponse(resp) ==
    IF resp = NoResponse THEN "fail"
    ELSE IF ~resp.ok THEN "nonok"
    ELSE IF resp.v = 1 THEN "ok1"
    ELSE "ok2"

\* getLatestRates(base) with the worker active. net is what the remote API
\* does with a request that reaches it.
RatesThroughWorker(base, net, wr) ==
    IF CacheLookup(sessionCache[base], clock) # "fetch"
    THEN /\ GetLatestRates(base, "fail", wr)
         /\ UNCHANGED <<swState, caches, pendingPuts, swLast>>
    ELSE /\ FetchCacheFirst(Request(RatesUrl(base), "cors", "GET"), net)
         /\ GetLatestRates(base, NetOfResponse(swLast'.resp), wr)

(***************************************************************************)
(* Specifications.                                                         *)
(***************************************************************************)
storageVars == <<txStore, settingsStore, uuidCtr, last, tabs>>
ratesVars == <<sessionCache, rcall, rprev>>

appVars == <<settings, exchangeRates, isLoadingRates, inflight, mounted, everReceived, shown,
             transactions, confirmState, submit>>

swVars == <<swState, caches, pendingPuts, swLast>>

vars == <<txStore, settingsStore, uuidCtr, clock, last, sessionCache, rcall, rprev,
          settings, exchangeRates, isLoadingRates, inflight, mounted, everReceived, shown,
          swState, caches, pendingPuts, swLast, transactions, confirmState, submit, tabs>>

Tick ==
    /\ clock < MaxTicks * TickMs
    /\ clock' = clock + TickMs

StorageIdle ==
    /\ txStore = Absent
    /\ settingsStore = SAbsent
    /\ uuidCtr = 0
    /\ last = NoCall
    /\ tabs = [t \in Tabs |-> IdleTab]

RatesIdle ==
    /\ sessionCache = [b \in Currencies |-> CacheAbsent]
    /\ rcall = NoRatesCall
    /\ rprev = NoPrevCall

\* The state of the hooks before the first render: useState(getSettings()),
\* useState(null), useState(true).
AppIdle ==
    /\ settings = GetSettings(settingsStore)
    /\ exchangeRates = NoTableId
    /\ isLoadingRates = TRUE
    /\ inflight = [b \in CurrencyCode |-> 0]
    /\ mounted = FALSE
    /\ everReceived = FALSE
    /\ shown = NoShown
    /\ transactions = <<>>
    /\ confirmState = NoConfirm
    /\ submit = NoSubmit

\* No worker is registered.
SWIdle ==
    /\ swState = "parsed"
    /\ caches = [n \in CacheNames |-> NoCache]
    /\ pendingPuts = {}
    /\ swLast = NoFetch

InitStorage ==
    /\ txStore \in RawStores
    /\ settingsStore = SAbsent
    /\ uuidCtr = 0
    /\ clock = 0
    /\ last = NoCall
    /\ tabs = [t \in Tabs |-> IdleTab]
    /\ RatesIdle
    /\ AppIdle
    /\ SWIdle

InitSettings ==
    /\ txStore = Absent
    /\ settingsStore \in RawSettings
    /\ uuidCtr = 0
    /\ clock = 0
    /\ last = NoCall
    /\ tabs = [t \in Tabs |-> IdleTab]
    /\ RatesIdle
    /\ AppIdle
    /\ SWIdle

\* A session starts with an empty session store, or with entries that some
\* other script of the origin left there.
InitRates ==
    /\ StorageIdle
    /\ clock = 0
    /\ \E bad \in {"none", "USD"} :
          sessionCache = [b \in Currencies |-> IF b = bad THEN CacheGarbage ELSE CacheAbsent]
    /\ rcall = NoRatesCall
    /\ rprev = NoPrevCall
    /\ AppIdle
    /\ SWIdle

\* The app starts with the settings an earlier visit left, in a new session.
InitApp ==
    /\ txStore = Absent
    /\ settingsStore \in {SAbsent, SObjText([NoSettings EXCEPT !.currency = JStr("USD")])}
    /\ uuidCtr = 0
    /\ last = NoCall
    /\ tabs = [t \in Tabs |-> IdleTab]
    /\ clock = 0
    /\ RatesIdle
    /\ AppIdle
    /\ SWIdle

NextStorage ==
    /\ \/ \E rd \in StorageOutcome : DoGetTransactions(rd)
       \/ \E tx \in TxInputs, rd, wr \in StorageOutcome : DoSaveTransaction(tx, rd, wr)
       \/ \E l \in OverrideInputs, wr \in StorageOutcome : DoOverrideTransactions(l, wr)
       \/ \E id \in IdInputs, rd, wr \in StorageOutcome : DoDeleteTransaction(id, rd, wr)
       \/ \E wr \in StorageOutcome : DoClearAllTransactions(wr)
    /\ UNCHANGED <<ratesVars, appVars, swVars, tabs>>

NextSettings ==
    /\ \/ \E rd \in StorageOutcome : DoGetSettings(rd)
       \/ \E s \in SettingsInputs, wr \in StorageOutcome : DoSaveSettings(s, wr)
    /\ UNCHANGED <<ratesVars, appVars, swVars, tabs>>

\* Calls of the rate service for two of the display currencies of the app.
RateBases == {"IDR", "USD"}
NextRates ==
    /\ \/ \E base \in RateBases, net \in NetOutcomes, wr \in StorageOutcome :
             GetLatestRates(base, net, wr)
       \/ Tick /\ UNCHANGED ratesVars
    /\ UNCHANGED <<storageVars, appVars, swVars>>

\* The network is unreachable: calls for every base of the static table.
NextOffline ==
    /\ \/ \E base \in Currencies, net \in NetFailures, wr \in StorageOutcome :
             GetLatestRates(base, net, wr)
       \/ Tick /\ UNCHANGED ratesVars
    /\ UNCHANGED <<storageVars, appVars, swVars>>

NextApp ==
    /\ \/ Mount
       \/ (\E curr \in CurrencyCode : ChangeCurrency(curr)) /\ UNCHANGED <<transactions, uuidCtr>>
       \/ (\E base \in CurrencyCode, net \in NetOutcomes, wr \in StorageOutcome :
              CompleteFetch(base, net, wr)) /\ UNCHANGED <<transactions, uuidCtr>>
       \/ (\E amount \in AmountInputs, currency \in TxCurrencies : Display(amount, currency))
             /\ UNCHANGED <<transactions, uuidCtr>>
    /\ UNCHANGED <<txStore, last, rcall, rprev, swVars, confirmState, submit, tabs>>

\* The app opens on a list an earlier session left: nothing, or a transaction
\* of this version and one of an earlier version.
LedgerStores == {Absent, ListText(<<TxA, RawLegacy>>)}

\* The session holds tables of the display currencies fetched within the hour.
InitLedger ==
    /\ txStore \in LedgerStores
    /\ settingsStore = SAbsent
    /\ uuidCtr = 0
    /\ last = NoCall
    /\ tabs = [t \in Tabs |-> IdleTab]
    /\ clock = 0
    /\ sessionCache = [b \in Currencies |->
                          IF b \in CurrencyCode THEN CacheEntry(LiveId(b, 1), 0) ELSE CacheAbsent]
    /\ rcall = NoRatesCall
    /\ rprev = NoPrevCall
    /\ AppIdle
    /\ SWIdle

ratesInApp == <<settings, settingsStore, sessionCache, exchangeRates, isLoadingRates,
                inflight, mounted, everReceived, shown>>

\* The form and the handlers of the app.
NextLedger ==
    /\ \/ Mount /\ submit' = NoSubmit /\ UNCHANGED <<txStore, confirmState>>
       \/ (\E curr \in CurrencyCode : ChangeCurrency(curr))
             /\ submit' = NoSubmit /\ UNCHANGED <<txStore, uuidCtr, transactions, confirmState>>
       \/ (\E f \in LedgerInputs, rd, wr \in StorageOutcome :
              HandleSubmit(f.text, f.description, f.category, f.type, f.currency, rd, wr))
             /\ UNCHANGED ratesInApp
       \/ (\E id \in IdsOf(transactions) : InitiateDeleteTransaction(id)) /\ UNCHANGED ratesInApp
       \/ (\E ids \in (SUBSET IdsOf(transactions)) \ {{}} : InitiateDeleteMultiple(ids))
             /\ UNCHANGED ratesInApp
       \/ InitiateClearAllData /\ UNCHANGED ratesInApp
       \/ (\E st \in StorageOutcome : HandleConfirmAction(st)) /\ UNCHANGED ratesInApp
       \/ HandleCancelAction /\ UNCHANGED ratesInApp
    /\ UNCHANGED <<last, clock, rcall, rprev, swVars, tabs>>

\* Another tab of the origin saves a transaction: the stored list changes, the
\* state of this tab does not.
OtherTabSaves(transaction) ==
    /\ DoSaveTransaction(transaction, "ok", "ok")
    /\ UNCHANGED <<ratesVars, appVars, swVars, tabs>>

\* This tab adds transactions and deletes selections of them while the other
\* tab saves.
NextShared ==
    \/ /\ \/ Mount /\ submit' = NoSubmit /\ UNCHANGED <<txStore, confirmState>>
          \/ (\E f \in LedgerInputs, rd, wr \in StorageOutcome :
                 HandleSubmit(f.text, f.description, f.category, f.type, f.currency, rd, wr))
                /\ UNCHANGED ratesInApp
          \/ (\E ids \in (SUBSET IdsOf(transactions)) \ {{}} : InitiateDeleteMultiple(ids))
                /\ UNCHANGED ratesInApp
          \/ (\E st \in StorageOutcome : HandleConfirmAction(st)) /\ UNCHANGED ratesInApp
          \/ HandleCancelAction /\ UNCHANGED ratesInApp
       /\ UNCHANGED <<last, clock, rcall, rprev, swVars, tabs>>
    \/ OtherTabSaves(TxA)

\* The form alone, with every kind of field values.
NextForm ==
    /\ \/ Mount /\ submit' = NoSubmit /\ UNCHANGED <<txStore, confirmState>>
       \/ (\E f \in FormInputs, rd, wr \in StorageOutcome :
              HandleSubmit(f.text, f.description, f.category, f.type, f.currency, rd, wr))
             /\ UNCHANGED ratesInApp
    /\ UNCHANGED <<last, clock, rcall, rprev, swVars, tabs>>

\* The worker of this version is registered on an origin where earlier
\* versions may have left their caches, and an earlier registration of this
\* version its dynamic cache.
InitSW ==
    /\ StorageIdle
    /\ clock = 0
    /\ RatesIdle
    /\ AppIdle
    /\ swState = "parsed"
    /\ \E old \in PayloadVersions \cup {0}, legacy \in BOOLEAN, kept \in BOOLEAN :
          caches = [n \in CacheNames |->
                      IF n = OLD_CACHE /\ old # 0
                      THEN [exists |-> TRUE,
                            entries |-> [u \in Urls |-> IF u \in STATIC_ASSETS THEN OkResponse(old)
                                                        ELSE NoResponse]]
                      ELSE IF n = CACHE_NAME /\ legacy THEN EmptyCache
                      ELSE IF n = DYNAMIC_CACHE /\ kept
                      THEN [EmptyCache EXCEPT !.entries[AssetUrl] = OkResponse(1)]
                      ELSE NoCache]
    /\ pendingPuts = {}
    /\ swLast = NoFetch

NextSW ==
    /\ \/ \E net \in NetworkResults : Install(net)
       \/ Activate
       \/ \E cacheName \in CacheNames : DeleteOldCache(cacheName)
       \/ ClaimClients
       \/ \E req \in Requests, net \in NetworkResults : FetchPassThrough(req, net)
       \/ \E req \in Requests, net \in NetworkResults : FetchApi(req, net)
       \/ \E req \in Requests, net \in NetworkResults : FetchNavigate(req, net)
       \/ \E req \in Requests, net \in NetworkResults : FetchCacheFirst(req, net)
       \/ \E p \in pendingPuts : PutCompletes(p)
    /\ UNCHANGED <<storageVars, clock, ratesVars, appVars>>

\* A page the active worker of this version controls, in a new session.
InitWorkerRates ==
    /\ StorageIdle
    /\ clock = 0
    /\ RatesIdle
    /\ AppIdle
    /\ swState = "active"
    /\ caches = [n \in CacheNames |->
                   IF n = STATIC_CACHE
                   THEN [exists |-> TRUE,
                         entries |-> [u \in Urls |-> IF u \in STATIC_ASSETS THEN OkResponse(1)
                                                     ELSE NoResponse]]
                   ELSE NoCache]
    /\ pendingPuts = {}
    /\ swLast = NoFetch

\* The display currency stays the default one.
NextWorkerRates ==
    /\ \/ \E base \in {DEFAULT_SETTINGS.currency.s}, net \in NetworkResults, wr \in StorageOutcome :
             RatesThroughWorker(base, net, wr)
       \/ (\E p \in pendingPuts : PutCompletes(p)) /\ UNCHANGED <<ratesVars, clock>>
       \/ Tick /\ UNCHANGED <<ratesVars, swVars>>
    /\ UNCHANGED <<storageVars, appVars>>

\* Two tabs open on a list an earlier session left.
TabStores == {Absent, ListText(<<TxB>>)}

InitTabs ==
    /\ txStore \in TabStores
    /\ settingsStore = SAbsent
    /\ uuidCtr = 0
    /\ clock = 0
    /\ last = NoCall
    /\ tabs = [t \in Tabs |-> IdleTab]
    /\ RatesIdle
    /\ AppIdle
    /\ SWIdle

NextTabs ==
    /\ \/ \E t \in Tabs, tx \in TxInputs, rd \in StorageOutcome :
             TabRead(t, "saveTransaction", tx, JUndef, rd)
       \/ \E t \in Tabs, id \in {tx.id : tx \in TxInputs}, rd \in StorageOutcome :
             TabRead(t, "deleteTransaction", NullEntry, id, rd)
       \/ \E t \in Tabs, wr \in StorageOutcome : TabWrite(t, wr)
    /\ UNCHANGED <<ratesVars, appVars, swVars>>

\* The app opens on a list that holds an entry without an id.
LegacyStores == LedgerStores \cup {ListText(<<TxA, RawBare>>)}

InitLegacy ==
    /\ txStore \in LegacyStores
    /\ settingsStore = SAbsent
    /\ uuidCtr = 0
    /\ last = NoCall
    /\ tabs = [t \in Tabs |-> IdleTab]
    /\ clock = 0
    /\ sessionCache = [b \in Currencies |->
                          IF b \in CurrencyCode THEN CacheEntry(LiveId(b, 1), 0) ELSE CacheAbsent]
    /\ rcall = NoRatesCall
    /\ rprev = NoPrevCall
    /\ AppIdle
    /\ SWIdle

SpecStorage == InitStorage /\ [][NextStorage]_vars
SpecSettings == InitSettings /\ [][NextSettings]_vars
SpecRates == InitRates /\ [][NextRates]_vars
SpecOffline == InitRates /\ [][NextOffline]_vars
SpecApp == InitApp /\ [][NextApp]_vars
SpecLedger == InitLedger /\ [][NextLedger]_vars
SpecForm == InitLedger /\ [][NextForm]_vars
SpecSW == InitSW /\ [][NextSW]_vars
SpecLegacy == InitLegacy /\ [][NextLedger]_vars
SpecShared == InitLedger /\ [][NextShared]_vars
SpecWorkerRates == InitWorkerRates /\ [][NextWorkerRates]_vars
SpecTabs == InitTabs /\ [][NextTabs]_vars

\* The worker answering the root navigation, an asset and the API.
FairRequests ==
    {Request("/", "navigate", "GET"), Request(AssetUrl, "no-cors", "GET"),
     Request(ApiUrl, "cors", "GET"), Request(ApiUrl, "cors", "POST")}

NextSWFair ==
    /\ \/ \E net \in NetworkResults : Install(net)
       \/ Activate
       \/ \E cacheName \in CacheNames : DeleteOldCache(cacheName)
       \/ ClaimClients
       \/ \E req \in FairRequests, net \in NetworkResults : FetchPassThrough(req, net)
       \/ \E req \in FairRequests, net \in NetworkResults : FetchApi(req, net)
       \/ \E req \in FairRequests, net \in NetworkResults : FetchNavigate(req, net)
       \/ \E req \in FairRequests, net \in NetworkResults : FetchCacheFirst(req, net)
       \/ \E p \in pendingPuts : PutCompletes(p)
    /\ UNCHANGED <<storageVars, clock, ratesVars, appVars>>

\* The copies handed to cache.put: a put that was started finishes.
PossiblePuts == {[url |-> u, resp |-> OkResponse(v)] : u \in {AssetUrl, ApiUrl}, v \in PayloadVersions}
SpecSWFair ==
    /\ InitSW
    /\ [][NextSWFair]_vars
    /\ \A p \in PossiblePuts :
          WF_vars(PutCompletes(p) /\ UNCHANGED <<storageVars, clock, ratesVars, appVars>>)
(***************************************************************************)
(* Properties of the persistence service.                                  *)
(***************************************************************************)
\* A stored text that reads the same on every read: no entry of it needs a
\* fresh identifier or the current time. Every text the service writes is one.
Stable(data) ==
    \/ data.kind # "list"
    \/ \E i \in 1..Len(data.items) : data.items[i].k = "null"
    \/ \A i \in 1..Len(data.items) : Truthy(data.items[i].id) /\ Truthy(data.items[i].date)

\* What a read of the storage returned just before the last call.
ReadBefore == GetTransactions(last.pre, last.preCtr, last.preClock)
\* What a read of the storage returns now.
ReadNow == GetTransactions(txStore, uuidCtr, clock)

\* C1: after saveTransaction(tx) on a persisted transaction list, getTransactions()
\* returns tx first, followed by the transactions that were there before, in their
\* order and with their field values, and saveTransaction returned that list.
C1_SaveThenGet ==
    (last.op = "saveTransaction" /\ ~last.threw /\ Stable(last.pre)) =>
        /\ ReadNow = <<last.tx>> \o ReadBefore
        /\ last.ret = ReadNow

C1_Witness ==
    /\ last.op = "saveTransaction" /\ ~last.threw /\ Stable(last.pre)
    /\ Len(ReadBefore) = 2
    /\ ReadBefore[1] # ReadBefore[2]
    /\ last.pre.items[2] = RawLegacy
    /\ ReadNow[1] = last.tx

\* The elements of L whose id differs from id, in their order.
RECURSIVE Keep(_, _)
Keep(L, id) ==
    IF L = <<>> THEN <<>>
    ELSE IF L[Len(L)].id = id THEN Keep(SubSeq(L, 1, Len(L) - 1), id)
    ELSE Append(Keep(SubSeq(L, 1, Len(L) - 1), id), L[Len(L)])

\* C2: deleteTransaction(id) on a stored list L persists and returns exactly the
\* elements of L whose id differs from id, in their order and with their field
\* values; when no element of L has that id the stored list reads as before.
C2_DeleteExact ==
    (last.op = "deleteTransaction" /\ ~last.threw /\ Stable(last.pre)) =>
        /\ last.ret = Keep(ReadBefore, last.id)
        /\ ReadNow = Keep(ReadBefore, last.id)
        /\ (\A i \in 1..Len(ReadBefore) : ReadBefore[i].id # last.id) => ReadNow = ReadBefore

C2_Witness ==
    /\ last.op = "deleteTransaction" /\ ~last.threw /\ Stable(last.pre)
    /\ Len(ReadBefore) = 3
    /\ ReadBefore[1].id = last.id /\ ReadBefore[3].id = last.id
    /\ ReadBefore[2].id # last.id
    /\ ReadNow = <<ReadBefore[2]>>

\* C3: no call of the persistence service ends with an exception reaching the
\* caller, whatever is stored and whatever the key-value store does.
C3_NeverThrows == ~last.threw

\* A well-formed Transaction: every field present, a numeric amount, a type tag.
WellFormed(t) ==
    /\ t.k = "obj"
    /\ t.id.k # "undef" /\ t.amount.k = "num"
    /\ t.description.k # "undef" /\ t.category.k # "undef"
    /\ t.date.k # "undef" /\ t.currency.k # "undef"
    /\ t.type \in {JStr("income"), JStr("expense")}

\* C4: for a stored text that parses to a list, getTransactions() returns a list
\* of the same length, entry i being the sanitized raw entry i, whatever the
\* raw entries are; any other stored text yields the empty list.
C4_SanitizeEachEntry ==
    (last.op = "getTransactions" /\ ~last.threw) =>
        IF last.pre.kind = "list"
        THEN /\ Len(last.ret) = Len(last.pre.items)
             /\ \A i \in 1..Len(last.ret) :
                   /\ WellFormed(last.ret[i])
                   /\ (last.ret[i].type = JStr("income")) <=> (last.pre.items[i].type = JStr("income"))
        ELSE last.ret = <<>>

\* C15: after saveSettings(s), getSettings() returns, field by field, the
\* value s holds for the field when s has the field and the default otherwise.
C15_SettingsRoundTrip ==
    (last.op = "saveSettings" /\ ~last.threw) =>
        \A f \in DOMAIN DEFAULT_SETTINGS :
            GetSettings(settingsStore)[f] =
                IF last.settings[f] # JUndef THEN last.settings[f] ELSE DEFAULT_SETTINGS[f]

C15_Witness ==
    /\ last.op = "saveSettings" /\ ~last.threw
    /\ last.settings = [NoSettings EXCEPT !.theme = JStr("light"), !.avatar = JStr("img")]
    /\ last.spre.kind = "obj" /\ last.spre.obj.currency = JStr("EUR")
    /\ GetSettings(settingsStore) =
          SettingsObj(JStr("IDR"), JStr("id"), JStr("light"), JStr("User"), JStr("img"))

\* C16: after clearAllTransactions(), whatever the key held before, the key
\* holds an explicit empty list and getTransactions() reads the empty list;
\* the key keeps holding it, and every read returns the empty list, until a
\* saveTransaction or an overrideTransactions.
C16_ClearLeavesEmptyList ==
    /\ []((last.op = "clearAllTransactions" /\ ~last.threw) =>
             /\ txStore.kind = "list" /\ txStore.items = <<>>
             /\ GetTransactions(txStore, uuidCtr, clock) = <<>>)
    /\ [][(/\ txStore.kind = "list" /\ txStore.items = <<>>
           /\ last'.op \notin {"saveTransaction", "overrideTransactions"}) =>
              /\ txStore' = txStore
              /\ (last'.op = "getTransactions" /\ ~last'.threw) => last'.ret = <<>>]_vars

C16_Witness ==
    /\ last.op = "clearAllTransactions" /\ ~last.threw
    /\ last.pre.kind = "list" /\ Len(last.pre.items) = 2
    /\ txStore = ListText(<<>>)
    /\ GetTransactions(txStore, uuidCtr, clock) = <<>>

\* A getTransactions() call returned a list, and the next call deletes by the
\* id of one of its entries.
DeleteOfReturned ==
    /\ last.op = "getTransactions" /\ ~last.threw
    /\ last'.op = "deleteTransaction" /\ ~last'.threw
    /\ last'.id \in {last.ret[i].id : i \in 1..Len(last.ret)}

\* C26: every transaction getTransactions() returns can be deleted by the id
\* it was returned with: after deleteTransaction(t.id) the stored list is one
\* shorter and has no entry of that id, whatever the storage holds.
C26_ReturnedIdDeletes ==
    [][DeleteOfReturned =>
          LET after == GetTransactions(txStore', uuidCtr', clock')
          IN /\ Len(after) = Len(last.ret) - 1
             /\ \A i \in 1..Len(after) : after[i].id # last'.id]_vars


(***************************************************************************)
(* Properties of the exchange-rate service and of the displayed amounts.   *)
(***************************************************************************)
\* C5: getLatestRates(base) never rejects, whatever the network does and
\* whatever the session-storage entry of the base holds.
C5_NeverRejects == rcall.outcome # "rejected"

\* C6 as stated: when a call went to the network and the next call for the same
\* base starts less than one hour later, the two calls issue exactly one network
\* request in total.
C6_OneRequestWithinTheHour ==
    (/\ rcall.base # "none" /\ rprev.base = rcall.base
     /\ rcall.outcome # "rejected"
     /\ rprev.requests = 1
     /\ rcall.start - rprev.start < HourMs)
        => rprev.requests + rcall.requests = 1

\* C6, amended: a call that finds an entry of its base fetched less than one
\* hour ago issues no request and returns that entry's table, which was fetched
\* for the same base; a call that finds no entry, or one fetched an hour or more
\* ago, issues one request; so a call that fetched live rates and the next call
\* for the same base less than one hour later issue exactly one request in total.
C6_CacheWindow ==
    (rcall.base # "none" /\ rcall.outcome # "rejected") =>
        /\ (rcall.found.kind = "entry" /\ rcall.start - rcall.found.timestamp < HourMs)
              => /\ rcall.requests = 0
                 /\ rcall.rates = rcall.found.rates
                 /\ rcall.rates.src = "live" /\ rcall.rates.base = rcall.base
        /\ (rcall.found.kind = "entry" /\ rcall.start - rcall.found.timestamp >= HourMs)
              => rcall.requests = 1
        /\ rcall.found.kind = "absent" => rcall.requests = 1
        /\ (/\ rprev.base = rcall.base /\ rprev.outcome = "live"
            /\ rcall.start - rprev.start < HourMs)
              => rprev.requests + rcall.requests = 1

C6_Witness ==
    /\ rprev.base = rcall.base /\ rprev.outcome = "live" /\ rprev.requests = 1
    /\ rcall.start - rprev.start = TickMs
    /\ rcall.outcome = "cached" /\ rcall.requests = 0
    /\ \E b \in CurrencyCode \ {rcall.base} : sessionCache[b].kind = "entry"

\* C10: when the fetch fails, the returned table has entry 1 for the base and
\* FALLBACK[X] / FALLBACK[base] for every currency X of the static table.
C10_FallbackRelativeToBase ==
    rcall.outcome = "fallback" =>
        /\ TableOf(rcall.rates)[rcall.base] = One
        /\ \A X \in Currencies :
              /\ TableOf(rcall.rates)[X] # NoRate
              /\ RatMul(TableOf(rcall.rates)[X], FALLBACK_RATES[rcall.base]) = FALLBACK_RATES[X]

C10_Witness ==
    /\ rcall.outcome = "fallback" /\ rcall.base = "IDR" /\ rcall.requests = 1
    /\ TableOf(rcall.rates)["USD"] = Rat(500000, 31)
    /\ TableOf(rcall.rates)["IDR"] = One

\* C8: the amount convertAmount(A, X, Y) displays is A when X = Y; otherwise 0
\* while no table is held or rates are loading; otherwise (A / rate[X]) * rate[Y]
\* when the table has both rates; otherwise A.
C8_ConvertAmountReference ==
    shown.from # "none" =>
        LET A == shown.amount
            X == shown.from
            Y == settings.currency.s
            rateX == RateIn(exchangeRates, X)
            rateY == RateIn(exchangeRates, Y)
        IN IF X = Y THEN shown.result = A
           ELSE IF exchangeRates = NoTableId \/ isLoadingRates THEN shown.result = Zero
           ELSE IF rateX # NoRate /\ rateY # NoRate
                THEN RatMul(shown.result, rateX) = RatMul(A, rateY)
           ELSE shown.result = A

C8_Witness ==
    /\ shown.from = "USD" /\ settings.currency.s = "IDR"
    /\ exchangeRates = LiveId("IDR", 1) /\ ~isLoadingRates
    /\ shown.amount = Rat(100, 1)
    /\ shown.result = Rat(1600000, 1)

\* C9: once a rate table has been received, no state shows 0 for a nonzero
\* amount in a currency other than the display currency.
C9_ZeroOnlyBeforeFirstRates ==
    everReceived =>
        \A c \in TxCurrencies \ {settings.currency.s} :
            GetDisplayAmount(Rat(100, 1), c) # Zero

\* C19: once every rate request in flight has completed, the table the app
\* holds is the one fetched for the display currency now selected, and
\* isLoadingRates is false only when no request for that currency is in flight.
C19_NewestRequestWins ==
    /\ (mounted /\ everReceived /\ InFlightTotal = 0) =>
          exchangeRates.base = settings.currency.s
    /\ (mounted /\ ~isLoadingRates) => inflight[settings.currency.s] = 0

\* One unit of currency a is worth more than one unit of currency b, by the
\* values of the static table.
WorthMore(a, b) ==
    FALLBACK_RATES[a].num * FALLBACK_RATES[b].den > FALLBACK_RATES[b].num * FALLBACK_RATES[a].den

GreaterThanOne(r) == r # NoRate /\ r.num > r.den

\* C23: with the table a failed fetch returns, converting one unit of a
\* currency into a currency that is worth less, by (A / rate[from]) * rate[to],
\* yields more than one unit; so 1 USD converted to IDR with the fallback
\* table of base IDR yields more than 1.
C23_FallbackFollowsLiveConvention ==
    rcall.outcome = "fallback" =>
        \A from, to \in Currencies :
            WorthMore(from, to) =>
                GreaterThanOne(ConvertAmount(One, from, to, rcall.rates, FALSE))

\* C27: the fallback table is never written to the session cache. A call that
\* fell back leaves the entry of its base as it found it; the next call for
\* the same base issues a network request again; and when that request
\* succeeds the call returns the live table and stores it.
C27_FallbackNotCached ==
    /\ \A b \in Currencies :
          sessionCache[b].kind = "entry" => sessionCache[b].rates.src = "live"
    /\ rcall.outcome = "fallback" => sessionCache[rcall.base] = rcall.found
    /\ (rprev.outcome = "fallback" /\ rprev.base = rcall.base) =>
          /\ rcall.requests = 1
          /\ rcall.found = sessionCache[rcall.base] \/ rcall.outcome = "live"
          /\ rcall.outcome = "live" =>
                /\ rcall.rates.src = "live" /\ rcall.rates.base = rcall.base
                /\ sessionCache[rcall.base] = CacheEntry(rcall.rates, rcall.start)

\* A call found an expired entry and fell back; the next call for the base
\* fetched again and stored the live table of the second rate set.
C27_Witness ==
    /\ rprev.outcome = "fallback" /\ rprev.base = rcall.base /\ rprev.requests = 1
    /\ rcall.found.kind = "entry" /\ rcall.found.rates.v = 1
    /\ rcall.outcome = "live" /\ rcall.requests = 1
    /\ sessionCache[rcall.base] = CacheEntry(LiveId(rcall.base, 2), rcall.start)

(***************************************************************************)
(* Properties of the offline cache worker.                                 *)
(***************************************************************************)
\* C7: once the worker is installed and active, a navigation to the root
\* document made while the network is unreachable is answered with a cached
\* response, never with a network error, in every cache state.
C7_OfflineRootServesShell ==
    (/\ swState = "active"
     /\ swLast.branch = "navigate" /\ swLast.url = "/"
     /\ swLast.net = NetworkUnreachable)
        => swLast.resp # NoResponse

\* A step in which the worker answers a fetch event in the cache-first branch.
CacheFirstStep ==
    /\ swState = "active"
    /\ UNCHANGED <<swState, caches>>
    /\ swLast'.branch = "cache-first"

\* Some cache holds a response for the url.
InSomeCache(url) ==
    \E n \in CacheNames : caches[n].exists /\ caches[n].entries[url] # NoResponse

\* C11: a GET request that is neither for the API host nor a navigation, and
\* for which some cache holds a response, is answered with a cached response
\* and without a network request, whatever the network would have returned.
C11_CacheFirstHit ==
    [][(CacheFirstStep /\ InSomeCache(swLast'.url)) =>
          /\ swLast'.requests = 0
          /\ swLast'.resp # NoResponse
          /\ \E n \in CacheNames : caches[n].exists /\ swLast'.resp = caches[n].entries[swLast'.url]
          /\ pendingPuts' = pendingPuts]_vars

C11_Witness ==
    /\ swLast.branch = "cache-first" /\ swLast.url = AssetUrl
    /\ swLast.requests = 0
    /\ swLast.resp = OkResponse(1)
    /\ caches[DYNAMIC_CACHE].entries[AssetUrl] = OkResponse(1)
    /\ caches[STATIC_CACHE].entries["/"] = OkResponse(2)

\* A step in which the worker answers a fetch event in the API branch.
ApiStep ==
    /\ swState = "active"
    /\ UNCHANGED <<swState, caches>>
    /\ swLast'.branch = "api"

\* C12: a GET request to the API host always goes to the network first; a
\* live response is returned whenever the network answers, a cached copy only
\* when the network fails; a live ok response is handed to the dynamic cache
\* and, the put finishing, is stored there.
C12_ApiNetworkFirst ==
    /\ [][ApiStep =>
            /\ swLast'.requests = 1
            /\ swLast'.net # NetworkUnreachable => swLast'.resp = swLast'.net
            /\ swLast'.resp # swLast'.net => swLast'.net = NetworkUnreachable
            /\ swLast'.net.ok =>
                  [url |-> swLast'.url, resp |-> swLast'.net] \in pendingPuts']_vars
    /\ \A v \in PayloadVersions :
          ([url |-> ApiUrl, resp |-> OkResponse(v)] \in pendingPuts)
              ~> (caches[DYNAMIC_CACHE].exists
                  /\ caches[DYNAMIC_CACHE].entries[ApiUrl] = OkResponse(v))

C12_Witness ==
    /\ swLast.branch = "api" /\ swLast.requests = 1
    /\ swLast.net = OkResponse(2) /\ swLast.resp = OkResponse(2)
    /\ caches[DYNAMIC_CACHE].entries[ApiUrl] = OkResponse(1)
    /\ [url |-> ApiUrl, resp |-> OkResponse(2)] \in pendingPuts

\* A step in which the worker answers a fetch event in the navigate branch.
NavigateStep ==
    /\ swState = "active"
    /\ UNCHANGED <<swState, pendingPuts>>
    /\ swLast'.branch = "navigate"

NavigateUrls == {r.url : r \in {q \in Requests : q.mode = "navigate"}}

\* C13: a navigation always tries the network and, when the network answers,
\* stores the response in the dynamic cache under the url before returning
\* it; nothing else changes that entry; a navigation made while the network is
\* unreachable returns the entry of its url, so it returns the response of the
\* most recent navigation to that url the network answered.
C13_NavigationNetworkFirst ==
    [][/\ NavigateStep =>
            /\ swLast'.requests = 1
            /\ swLast'.net # NetworkUnreachable =>
                  /\ swLast'.resp = swLast'.net
                  /\ caches'[DYNAMIC_CACHE].exists
                  /\ caches'[DYNAMIC_CACHE].entries[swLast'.url] = swLast'.net
            /\ (/\ swLast'.net = NetworkUnreachable
                /\ caches[DYNAMIC_CACHE].exists
                /\ caches[DYNAMIC_CACHE].entries[swLast'.url] # NoResponse) =>
                  swLast'.resp = caches[DYNAMIC_CACHE].entries[swLast'.url]
       /\ \A u \in NavigateUrls :
            caches'[DYNAMIC_CACHE].entries[u] # caches[DYNAMIC_CACHE].entries[u] =>
                NavigateStep /\ swLast'.url = u /\ swLast'.net # NetworkUnreachable
       /\ caches[DYNAMIC_CACHE].exists => caches'[DYNAMIC_CACHE].exists]_vars

C13_Witness ==
    /\ swLast.branch = "navigate" /\ swLast.url = "/"
    /\ swLast.net = NetworkUnreachable /\ swLast.requests = 1
    /\ swLast.resp = OkResponse(2)
    /\ caches[STATIC_CACHE].entries["/"] = OkResponse(1)
    /\ caches[DYNAMIC_CACHE].entries["/index.html"] = OkResponse(1)

\* C14: once activation has completed no cache exists under a name other than
\* the two current ones; the steps of the activation leave the two current
\* caches as they were; and the clients are claimed only in a state in which
\* every other cache is already gone.
C14_ActivationSweep ==
    /\ [](swState = "active" =>
            \A n \in CacheNames : caches[n].exists => n \in {STATIC_CACHE, DYNAMIC_CACHE})
    /\ [][/\ (swState \in {"installed", "activating"}) =>
                /\ caches'[STATIC_CACHE] = caches[STATIC_CACHE]
                /\ caches'[DYNAMIC_CACHE] = caches[DYNAMIC_CACHE]
          /\ (swState # "active" /\ swState' = "active") =>
                \A n \in CacheNames \ {STATIC_CACHE, DYNAMIC_CACHE} : ~caches[n].exists]_vars

C14_Witness ==
    /\ swState = "active" /\ swLast = NoFetch /\ pendingPuts = {}
    /\ ~caches[OLD_CACHE].exists /\ ~caches[CACHE_NAME].exists
    /\ caches[STATIC_CACHE].entries["/index.html"] = OkResponse(2)
    /\ caches[DYNAMIC_CACHE].entries[AssetUrl] = OkResponse(1)

\* C20: when a cache-first request missed the caches and the network returned
\* an ok response, the dynamic cache holds a copy of it in the state in which
\* the response is returned to the page.
C20_CopyStoredBeforeReturn ==
    (/\ swLast.branch = "cache-first"
     /\ swLast.requests = 1
     /\ swLast.net.ok)
        => /\ caches[DYNAMIC_CACHE].exists
           /\ caches[DYNAMIC_CACHE].entries[swLast.url] = swLast.resp

CurrentCaches == {STATIC_CACHE, DYNAMIC_CACHE}

\* C21 as stated: while its cache exists, an entry of the shell cache or of
\* the dynamic cache is neither removed nor replaced.
C21_EntriesNeverReplaced ==
    [][\A n \in CurrentCaches, u \in Urls :
          (caches[n].exists /\ caches[n].entries[u] # NoResponse)
              => caches'[n].entries[u] = caches[n].entries[u]]_vars

\* C21, amended: the two current caches are never deleted and none of their
\* entries is ever removed; the entries of the shell cache are written by
\* install only; an entry of the dynamic cache is replaced only by a response
\* the network gave for the same url: in a navigation, or when a put of the
\* API or cache-first branch finishes.
C21_EntriesKeptOrRefreshed ==
    [][\A n \in CurrentCaches, u \in Urls :
          /\ caches[n].exists => caches'[n].exists
          /\ (caches[n].exists /\ caches[n].entries[u] # NoResponse)
                => caches'[n].entries[u] # NoResponse
          /\ (n = STATIC_CACHE /\ caches'[n].entries[u] # caches[n].entries[u])
                => (swState = "parsed" /\ swState' = "installed")
          /\ (n = DYNAMIC_CACHE /\ caches'[n].entries[u] # caches[n].entries[u])
                => \/ /\ NavigateStep /\ swLast'.url = u
                      /\ swLast'.net # NetworkUnreachable
                      /\ caches'[n].entries[u] = swLast'.net
                   \/ /\ [url |-> u, resp |-> caches'[n].entries[u]] \in pendingPuts
                      /\ [url |-> u, resp |-> caches'[n].entries[u]] \notin pendingPuts']_vars

C21_Witness ==
    /\ swLast.branch = "navigate" /\ swLast.url = "/index.html"
    /\ swLast.net = ErrorResponse
    /\ caches[DYNAMIC_CACHE].entries["/index.html"] = ErrorResponse
    /\ caches[DYNAMIC_CACHE].entries[AssetUrl] = OkResponse(2)
    /\ caches[STATIC_CACHE].entries["/index.html"] = OkResponse(1)

\* C30: every response the worker stores in the dynamic cache at runtime has
\* an ok status, in the API, the navigation and the cache-first branch.
C30_OnlyOkStored ==
    /\ \A u \in Urls :
          caches[DYNAMIC_CACHE].entries[u] # NoResponse => caches[DYNAMIC_CACHE].entries[u].ok
    /\ \A p \in pendingPuts : p.resp.ok

\* C28: with the worker active, a getLatestRates call that finds its
\* session-cache entry expired issues a request that reaches the network, and
\* the response it gets is the one the remote API gives at that time, also
\* when the dynamic cache holds the response of an earlier rate request.
C28_ExpiredRatesReachNetwork ==
    (/\ rcall.requests = 1 /\ rcall.found.kind = "entry"
     /\ swLast.url = RatesUrl(rcall.base))
        => /\ swLast.requests = 1
           /\ swLast.net.ok => swLast.resp = swLast.net

ParsedNumber(text) ==
    CASE text = <<"1", ".", "000">> -> 1000
      [] text = <<"999", ".", "999", ".", "999">> -> 999999999
      [] text = <<"1", ".", "000", ".", "000", ".", "000">> -> 1000000000
      [] text = <<"1", ",", "5">> -> 1
      [] text = <<"5", "x">> -> 5
      [] text = <<"-", "5">> -> -5
      [] OTHER -> 0

\* C18: the form hands a transaction to onSubmit exactly when the amount
\* parses to a number above 0 and at most 999,999,999 and the category is in
\* the list of the selected type; the transaction carries that number; when
\* nothing is handed over, the stored list and the list shown are unchanged.
C18_FormHandsValidOnly ==
    submit.op = "submit" =>
        LET n == ParsedNumber(submit.amount)
            valid == /\ n > 0 /\ n <= 999999999
                     /\ submit.category \in
                           (IF submit.type = "income" THEN INCOME_CATEGORIES ELSE EXPENSE_CATEGORIES)
        IN /\ submit.handed <=> valid
           /\ submit.handed =>
                 /\ submit.tx.amount = JNum(n)
                 /\ submit.tx.category = JStr(submit.category)
           /\ ~submit.handed => (txStore = submit.pre /\ transactions = submit.preList)

C18_Witness ==
    /\ submit.op = "submit" /\ submit.handed
    /\ submit.amount = <<"999", ".", "999", ".", "999">>
    /\ submit.tx.amount = JNum(999999999)
    /\ Len(transactions) = Len(submit.preList) + 1
    /\ transactions[1] = submit.tx
    /\ txStore # submit.pre

\* C24: in a single tab, once the app has loaded, the list it holds in memory
\* is the list getTransactions() returns from storage.
C24_ListMirrorsStorage ==
    mounted => transactions = GetTransactions(txStore, uuidCtr, clock)

\* The confirmation of a bulk deletion goes through in this step.
BulkConfirmStep ==
    /\ confirmState.isOpen /\ confirmState.type = "bulk"
    /\ confirmState' = NoConfirm
    /\ transactions' # transactions

\* C25: confirming a bulk deletion removes exactly the selected ids: the stored
\* list afterwards is the stored list just before without the entries whose id
\* was selected, also when another tab saved a transaction in between.
C25_BulkDeleteExact ==
    [][BulkConfirmStep =>
          GetTransactions(txStore', uuidCtr', clock')
             = SelectSeq(GetTransactions(txStore, uuidCtr, clock),
                         LAMBDA t : t.id \notin confirmState.ids)]_vars

\* The pending deletion covers the entry of this id.
Covers(state, id) ==
    \/ state.type = "single" /\ state.id = id
    \/ state.type = "bulk" /\ id \in state.ids
    \/ state.type = "all"

\* C29: an entry leaves the stored list only in the step that confirms an open
\* dialog whose pending deletion covers it; cancelling the dialog leaves the
\* stored list and the list in memory as they were; and the dialog is open
\* exactly when a deletion type is set.
C29_DeleteOnlyWhenConfirmed ==
    [][LET before == GetTransactions(txStore, uuidCtr, clock)
           after == GetTransactions(txStore', uuidCtr', clock')
       IN /\ \A id \in IdsOf(before) \ IdsOf(after) :
                /\ confirmState.isOpen /\ Covers(confirmState, id)
                /\ submit'.op = "confirm"
                /\ confirmState' = NoConfirm
          /\ (confirmState.isOpen /\ submit'.op = "cancel")
                => /\ txStore' = txStore
                   /\ transactions' = transactions
                   /\ ~confirmState'.isOpen
          /\ confirmState'.isOpen <=> confirmState'.type # "none"
          /\ confirmState.isOpen <=> confirmState.type # "none"]_vars

\* Of the two entries the storage held, the one of id "b" was deleted through
\* a confirmed dialog; a later dialog was cancelled.
C29_Witness ==
    /\ mounted /\ confirmState = NoConfirm
    /\ submit.op = "cancel"
    /\ Len(transactions) = 1 /\ transactions[1].id = JStr("a")
    /\ GetTransactions(txStore, uuidCtr, clock) = transactions

(***************************************************************************)
(* Two tabs.                                                               *)
(***************************************************************************)
Entries(list) == {list[i] : i \in 1..Len(list)}

\* The write of tab t succeeds in this step.
TabWriteStep(t) ==
    /\ tabs[t].pc = "read"
    /\ tabs'[t].pc = "idle"
    /\ ~tabs'[t].threw

\* What the call of tab t makes of a list.
Changed(t, list) ==
    IF tabs[t].op = "saveTransaction" THEN <<tabs[t].tx>> \o list
    ELSE SelectSeq(list, LAMBDA e : e.id # tabs[t].id)

\* C22: the read-modify-write of saveTransaction and deleteTransaction is
\* last-writer-wins. The list a tab writes is its change applied to the list
\* it read. When the other tab wrote between that read and this write, what
\* the other tab added is gone from storage and what it deleted is back; when
\* nothing was written in between, the stored list is this tab's change
\* applied to the stored list, so both changes are kept.
C22_LastWriterWins ==
    [][\A t \in Tabs :
          TabWriteStep(t) =>
             LET mine == tabs[t].current
                 before == GetTransactions(txStore, uuidCtr, clock)
                 after == GetTransactions(txStore', uuidCtr', clock')
             IN /\ after = Changed(t, mine)
                /\ tabs[t].seen = txStore => after = Changed(t, before)
                /\ \A e \in Entries(before) \ Entries(mine) :
                      e # tabs[t].tx => e \notin Entries(after)
                /\ \A e \in Entries(mine) \ Entries(before) :
                      e.id # tabs[t].id => e \in Entries(after)]_vars

\* Both tabs read the list <<TxB>>; tab 1 saved TxA, then tab 2 deleted "b":
\* the save of tab 1 is lost.
C22_Witness ==
    /\ tabs[1].op = "saveTransaction" /\ tabs[1].wrote = <<TxA, TxB>> /\ tabs[1].pc = "idle"
    /\ tabs[2].op = "deleteTransaction" /\ tabs[2].seen = ListText(<<TxB>>)
    /\ tabs[2].wrote = <<>> /\ tabs[2].pc = "idle" /\ ~tabs[2].threw
    /\ tabs[1].seen = ListText(<<TxB>>)
    /\ GetTransactions(txStore, uuidCtr, clock) = <<>>
====
